---- MODULE Spec2Model ----
(***************************************************************************)
(* Proximity index engine of src/app.py: geohash codec, agent store,       *)
(* geohash bucket index, staged distance cascade and neighbour query.      *)
(*                                                                         *)
(* Angles are fixed-point degrees: an integer v stands for v / FRAC        *)
(* degrees.  Every interval midpoint the encoder computes for 8 characters *)
(* is then an integer, exactly as it is an exact binary float in Python.   *)
(* Geohash codes are sequences of one-character strings.                   *)
(***************************************************************************)
EXTENDS Integers, Sequences, FiniteSets, TLC

VARIABLES
  users,      \* dict user_id -> reference of a User object   (app.py:27)
  heap,       \* User objects by reference                     (app.py:29-34)
  geo_index,  \* defaultdict geohash -> set(user_id)           (app.py:185)
  now,        \* the wall clock, time.time()
  frames,     \* one activation record per request thread
  ret,        \* what the last finished call returned
  upserted,   \* the user ids for which an upsert_user call has returned
  gh,         \* codec walk: the current code
  prev_gh,    \* codec walk: the code before the last _neighbor call
  dir,        \* codec walk: direction of the last _neighbor call
  cell,       \* codec walk: grid cell of gh, when it is tracked
  casc        \* cascade: arguments and results of near_with_stages

vars == <<users, heap, geo_index, now, frames, ret, upserted,
          gh, prev_gh, dir, cell, casc>>
storeVars == <<users, heap, geo_index, now, frames, ret, upserted>>
codecVars == <<gh, prev_gh, dir, cell>>

\* Python's None, and a present value, for the places that hold either
None == << >>
Some(v) == << v >>
Val(o) == o[1]
NoDir == "none"

\* ------------------------------------------------------------------ bounds
MaxLen == 2          \* longest code the codec walk enumerates
MaxUpserts == 3      \* upsert_user calls in one sequential run
MaxTime == 1         \* last clock value
MaxRequests == 2     \* /api/location requests started in one concurrent run

\* --------------------------------------------------------------- constants
FRAC == 1024 * 1024  \* fixed-point units per degree
R_EARTH == 6371000
GEO_PREC == 8
THRESH_M == 10
TIME_WINDOW == 60
RELAX_NUM == 12      \* RELAX_RATIO = 1.2 = RELAX_NUM / RELAX_DEN
RELAX_DEN == 10
HIST_MAXLEN == 20

\* ------------------------------------------------------------------ codec
BASE32 ==
  << "0","1","2","3","4","5","6","7","8","9","b","c","d","e","f","g",
     "h","j","k","m","n","p","q","r","s","t","u","v","w","x","y","z" >>

Directions == {"top", "bottom", "left", "right"}

NEIGHBORS_swapped ==
  [ right  |-> << "b","c","0","1","f","g","4","5","2","3","8","9","6","7","d","e",
                  "u","v","h","j","y","z","n","p","k","m","s","t","q","r","w","x" >>,
    left   |-> << "2","3","8","9","6","7","d","e","b","c","0","1","f","g","4","5",
                  "k","m","s","t","q","r","w","x","u","v","h","j","y","z","p","n" >>,
    top    |-> << "p","0","r","2","1","4","3","6","x","8","z","b","9","d","c","f",
                  "5","h","7","k","j","n","m","q","e","s","g","u","t","w","v","y" >>,
    bottom |-> << "1","4","3","6","5","h","7","k","9","d","c","f","e","s","g","u",
                  "j","n","m","q","p","0","r","2","t","w","v","y","x","8","z","b" >> ]

NEIGHBORS ==
  [ right  |-> << "b","c","0","1","f","g","4","5","2","3","8","9","6","7","d","e",
                  "u","v","h","j","y","z","n","p","k","m","s","t","q","r","w","x" >>,
    left   |-> << "2","3","8","9","6","7","d","e","b","c","0","1","f","g","4","5",
                  "k","m","s","t","q","r","w","x","u","v","h","j","y","z","n","p" >>,
    top    |-> << "p","0","r","2","1","4","3","6","x","8","z","b","9","d","c","f",
                  "5","h","7","k","j","n","m","q","e","s","g","u","t","w","v","y" >>,
    bottom |-> << "1","4","3","6","5","h","7","k","9","d","c","f","e","s","g","u",
                  "j","n","m","q","p","0","r","2","t","w","v","y","x","8","z","b" >> ]

BORDERS_short ==
  [ right  |-> << "b","c","f","g","u","v","y" >>,
    left   |-> << "0","1","4","5","h","j","n","p" >>,
    top    |-> << "p","r","x","z" >>,
    bottom |-> << "0","2","8","b" >> ]

BORDERS ==
  [ right  |-> << "b","c","f","g","u","v","y","z" >>,
    left   |-> << "0","1","4","5","h","j","n","p" >>,
    top    |-> << "p","r","x","z" >>,
    bottom |-> << "0","2","8","b" >> ]

\* str.find: 0-based position of ch in s, -1 when absent
Find(s, ch) ==
  LET at == { i \in 1..Len(s) : s[i] = ch }
  IN  IF at = {} THEN -1 ELSE (CHOOSE i \in at : \A j \in at : i <= j) - 1

\* s[i] with Python's 0-based index, -1 meaning the last element
At(s, i) == IF i < 0 THEN s[Len(s) + 1 + i] ELSE s[i + 1]

In(ch, s) == \E i \in 1..Len(s) : s[i] = ch

\* the table _neighbor uses for a direction, after the parity switch of
\* lines 84-105 (odd lengths read the table of the transposed direction)
direction_map(type_, direction) ==
  IF type_ = "odd"
  THEN CASE direction = "right"  -> NEIGHBORS.top
         [] direction = "left"   -> NEIGHBORS.bottom
         [] direction = "top"    -> NEIGHBORS.right
         [] direction = "bottom" -> NEIGHBORS.left
  ELSE NEIGHBORS[direction]

border_map(type_, direction) ==
  IF type_ = "odd"
  THEN CASE direction = "right"  -> BORDERS.top
         [] direction = "left"   -> BORDERS.bottom
         [] direction = "top"    -> BORDERS.right
         [] direction = "bottom" -> BORDERS.left
  ELSE BORDERS[direction]

RECURSIVE _neighbor(_, _)
_neighbor(hashcode, direction) ==
  IF hashcode = <<>> THEN <<>>
  ELSE
    LET last   == hashcode[Len(hashcode)]
        parent0 == SubSeq(hashcode, 1, Len(hashcode) - 1)
        type_  == IF Len(hashcode) % 2 = 0 THEN "even" ELSE "odd"
        parent == IF In(last, border_map(type_, direction))
                  THEN _neighbor(parent0, direction)
                  ELSE parent0
        idx    == Find(BASE32, last)
    IN  Append(parent, At(BASE32, Find(direction_map(type_, direction), At(BASE32, idx))))

neighbors(g) ==
  LET n  == _neighbor(g, "top")
      s  == _neighbor(g, "bottom")
      e  == _neighbor(g, "right")
      w  == _neighbor(g, "left")
      ne == _neighbor(n, "right")
      nw == _neighbor(n, "left")
      se == _neighbor(s, "right")
      sw == _neighbor(s, "left")
  IN  {n, s, e, w, ne, nw, se, sw}

bits == << 16, 8, 4, 2, 1 >>

\* The while loop of encode_geohash, lines 131-152: one call is one pass,
\* its arguments are the loop's local variables.
RECURSIVE encode_loop(_, _, _, _, _, _, _, _, _, _, _)
encode_loop(lat, lon, precision, lat_lo, lat_hi, lon_lo, lon_hi, geohash, bit, ch, even) ==
  IF Len(geohash) >= precision THEN geohash
  ELSE
    LET mid == IF even THEN (lon_lo + lon_hi) \div 2 ELSE (lat_lo + lat_hi) \div 2
        up  == IF even THEN lon > mid ELSE lat > mid
        ch1 == IF up THEN ch + bits[bit + 1] ELSE ch
    IN  encode_loop(lat, lon, precision,
                    IF ~even /\ up THEN mid ELSE lat_lo,
                    IF ~even /\ ~up THEN mid ELSE lat_hi,
                    IF even /\ up THEN mid ELSE lon_lo,
                    IF even /\ ~up THEN mid ELSE lon_hi,
                    IF bit < 4 THEN geohash ELSE Append(geohash, At(BASE32, ch1)),
                    IF bit < 4 THEN bit + 1 ELSE 0,
                    IF bit < 4 THEN ch1 ELSE 0,
                    ~even)

encode_geohash(lat, lon, precision) ==
  encode_loop(lat, lon, precision,
              -90 * FRAC, 90 * FRAC, -180 * FRAC, 180 * FRAC, <<>>, 0, 0, TRUE)

\* ------------------------------------------------------------- codec walk
RECURSIVE Pow2(_)
Pow2(n) == IF n = 0 THEN 1 ELSE 2 * Pow2(n - 1)

\* bits of longitude / latitude in a code of n characters (longitude first)
LonBits(n) == (5 * n + 1) \div 2
LatBits(n) == (5 * n) \div 2

\* centre of grid cell (x, y) of the n-character grid, fixed-point degrees
CellLon(n, x) ==
  LET w == (360 * FRAC) \div Pow2(LonBits(n)) IN -180 * FRAC + x * w + w \div 2
CellLat(n, y) ==
  LET h == (180 * FRAC) \div Pow2(LatBits(n)) IN -90 * FRAC + y * h + h \div 2

Cells ==
  UNION { { [n |-> n, x |-> x, y |-> y] :
              x \in 0..(Pow2(LonBits(n)) - 1), y \in 0..(Pow2(LatBits(n)) - 1) } :
          n \in 1..MaxLen }

CellCode(c) == encode_geohash(CellLat(c.n, c.y), CellLon(c.n, c.x), c.n)

DX(d) == CASE d = "right" -> 1 [] d = "left" -> -1 [] OTHER -> 0
DY(d) == CASE d = "top" -> 1 [] d = "bottom" -> -1 [] OTHER -> 0

\* the grid cell next to c: longitude wraps, latitude ends at the poles
Shift(c, dx, dy) ==
  LET w == Pow2(LonBits(c.n))
      h == Pow2(LatBits(c.n))
  IN  IF c.y + dy < 0 \/ c.y + dy >= h THEN None
      ELSE Some([n |-> c.n, x |-> (c.x + dx + w) % w, y |-> c.y + dy])

Opposite(d) ==
  CASE d = "right" -> "left" [] d = "left" -> "right"
    [] d = "top" -> "bottom" [] d = "bottom" -> "top"

StoreIdle ==
  /\ users = << >> /\ heap = << >> /\ geo_index = << >>
  /\ now = 0 /\ frames = << >> /\ ret = << >> /\ upserted = {}

CascIdle == casc = [done |-> TRUE]

CodecInit ==
  /\ prev_gh = <<>> /\ dir = NoDir
  /\ \E c \in Cells : cell = Some(c) /\ gh = CellCode(c)

\* one _neighbor call; the walk stops once it has stepped over a pole,
\* where the grid has no cell to compare with
Neighbor(d) ==
  /\ cell # None
  /\ gh' = _neighbor(gh, d)
  /\ prev_gh' = gh
  /\ dir' = d
  /\ cell' = Shift(Val(cell), DX(d), DY(d))

InitCodec == CodecInit /\ StoreIdle /\ CascIdle
NextCodec ==
  \E d \in Directions : Neighbor(d) /\ UNCHANGED <<storeVars, casc>>
SpecCodec == InitCodec /\ [][NextCodec]_vars

\* C7: a step to the right followed by a step to the left (and likewise
\* left/right, top/bottom, bottom/top) recovers the code it started from,
\* for every code, border symbols included.
NeighborSymmetry ==
  dir # NoDir => _neighbor(gh, Opposite(dir)) = prev_gh

\* C7 witness: a two-character code made of border symbols only has been
\* stepped over the top edge of both its parent cell and the grid.
WitnessBorderRoundTrip ==
  /\ dir = "top" /\ prev_gh = << "z", "z" >> /\ gh # prev_gh

Block(c) ==
  { CellCode(Val(Shift(c, dx, dy))) : dx \in {-1, 0, 1}, dy \in {-1, 0, 1} }

Interior(c) == c.y > 0 /\ c.y < Pow2(LatBits(c.n)) - 1

\* C9: walking with _neighbor keeps the code equal to the code the encoder
\* gives the adjacent grid cell (longitude wrapping, latitude while a cell
\* exists), and a cell with its neighbours is the 3x3 block around it.
\* (The block is compared where the walk starts: every cell starts a walk.)
NeighborMatchesGrid ==
  cell # None =>
     /\ gh = CellCode(Val(cell))
     /\ (dir = NoDir /\ Interior(Val(cell))) =>
          ({gh} \cup neighbors(gh) = Block(Val(cell)))

\* C9 witness: a tracked cell was entered by a step to the right across the
\* antimeridian on the two-character grid.
WitnessWrapStep ==
  /\ cell # None /\ dir = "right"
  /\ Val(cell).n = 2 /\ Val(cell).x = 0 /\ Interior(Val(cell))

\* ------------------------------------------------------- distance cascade
(***************************************************************************)
(* The distance functions are modelled on the lattice of points whose      *)
(* latitude and longitude are multiples of 90 degrees.  There every sine   *)
(* and cosine the code takes is 0, 1, -1 or a square root of 1/2, so the   *)
(* haversine argument a and the squared planar distance are exact          *)
(* rationals; distances are whole metres.  The thresholds the model uses   *)
(* lie more than 1 % away from every distance on the lattice, which is     *)
(* more than the rounding of the planar distance (below 0.05 %).           *)
(***************************************************************************)
QUARTER_ARC_M == ((R_EARTH \div 2) * 355) \div 113  \* R_EARTH * pi / 2

Abs(x) == IF x < 0 THEN -x ELSE x
Max(a, b) == IF a >= b THEN a ELSE b

\* an angle in quarter turns (it is a multiple of 90 degrees)
Quarters(v) == v \div (90 * FRAC)

\* 2 * sin^2 and 2 * cos^2 of e * 45 degrees;  cos of q * 90 degrees
Sin2x2(e) == << 0, 1, 2, 1 >>[(e % 4) + 1]
Cos2x2(e) == << 2, 1, 0, 1 >>[(e % 4) + 1]
CosQ(q) == << 1, 0, -1, 0 >>[(q % 4) + 1]

\* floor of the square root, by bisection: lo^2 <= n < hi^2
RECURSIVE IsqrtIter(_, _, _)
IsqrtIter(n, lo, hi) ==
  IF hi - lo <= 1 THEN lo
  ELSE LET mid == (lo + hi) \div 2
       IN  IF mid * mid <= n THEN IsqrtIter(n, mid, hi) ELSE IsqrtIter(n, lo, mid)

Isqrt(n) == IsqrtIter(n, 0, 46341)

\* a = sin^2(dphi/2) + cos(phi1) cos(phi2) sin^2(dlambda/2) is 0, 1/2 or 1
\* on the lattice, and 2 R atan2(sqrt a, sqrt(1-a)) is then 0, 1 or 2
\* quarter arcs.
haversine(lat1, lon1, lat2, lon2) ==
  LET phi1    == Quarters(lat1)
      phi2    == Quarters(lat2)
      dphi    == Quarters(lat2 - lat1)
      dlambda == Quarters(lon2 - lon1)
      a2      == Sin2x2(dphi) + CosQ(phi1) * CosQ(phi2) * Sin2x2(dlambda)
  IN  a2 * QUARTER_ARC_M

\* R sqrt(x^2 + y^2) with x = dlambda cos(mean latitude), y = dphi, is
\* QUARTER_ARC_M * sqrt(n2 / 2); the root is taken in units of EQ_UNIT m.
EQ_UNIT == 2 * 1000

equirectangular_m(lat1, lon1, lat2, lon2) ==
  LET dlon == Quarters(lon2 - lon1)
      dlat == Quarters(lat2 - lat1)
      mean == Quarters(lat1) + Quarters(lat2)       \* in units of 45 degrees
      n2   == dlon * dlon * Cos2x2(mean) + 2 * dlat * dlat
      q    == QUARTER_ARC_M \div EQ_UNIT
  IN  Isqrt((q * q * n2) \div 2) * EQ_UNIT

\* |dlat| <= thresh_m * deg_per_m  and  |dlon| <= dlat_max / max(0.2, cos(lat1)),
\* both sides turned into metres of arc (and the second multiplied by 5).
bbox_pass(lat1, lon1, lat2, lon2, thresh_m) ==
  LET cos5 == Max(1, 5 * CosQ(Quarters(lat1)))
  IN  /\ Abs(Quarters(lat1 - lat2)) * QUARTER_ARC_M <= thresh_m
      /\ Abs(Quarters(lon1 - lon2)) * QUARTER_ARC_M * cos5 <= 5 * thresh_m

near_with_stages(lat1, lon1, lat2, lon2, thresh_m) ==
  IF ~bbox_pass(lat1, lon1, lat2, lon2, thresh_m) THEN FALSE
  ELSE IF RELAX_DEN * equirectangular_m(lat1, lon1, lat2, lon2) > thresh_m * RELAX_NUM
       THEN FALSE
       ELSE haversine(lat1, lon1, lat2, lon2) <= thresh_m

Deg(d) == d * FRAC

\* valid coordinates on the lattice, and the thresholds tried
ValidLats == { Deg(-90), Deg(0), Deg(90) }
ValidLons == { Deg(-180), Deg(-90), Deg(0), Deg(90), Deg(180) }
Thresholds == { THRESH_M, 11000000, 21000000 }

InitCascade ==
  /\ StoreIdle
  /\ gh = <<>> /\ prev_gh = <<>> /\ dir = NoDir /\ cell = None
  /\ \E lat1 \in ValidLats, lon1 \in ValidLons, lat2 \in ValidLats,
        lon2 \in ValidLons, th \in Thresholds :
       casc = [done |-> FALSE, lat1 |-> lat1, lon1 |-> lon1, lat2 |-> lat2,
               lon2 |-> lon2, thresh_m |-> th,
               bbox |-> FALSE, planar |-> 0, exact |-> 0, near |-> FALSE]

Cascade ==
  /\ ~casc.done
  /\ casc' = [casc EXCEPT
       !.done   = TRUE,
       !.bbox   = bbox_pass(casc.lat1, casc.lon1, casc.lat2, casc.lon2, casc.thresh_m),
       !.planar = equirectangular_m(casc.lat1, casc.lon1, casc.lat2, casc.lon2),
       !.exact  = haversine(casc.lat1, casc.lon1, casc.lat2, casc.lon2),
       !.near   = near_with_stages(casc.lat1, casc.lon1, casc.lat2, casc.lon2,
                                   casc.thresh_m)]
  /\ UNCHANGED <<storeVars, codecVars>>

NextCascade == Cascade
SpecCascade == InitCascade /\ [][NextCascade]_vars

\* C3: whenever the exact distance is within the threshold, neither the
\* bounding box nor the planar test rejects the pair, so near_with_stages
\* is true exactly when haversine <= thresh_m.
CascadeMonotone ==
  casc.done =>
    /\ (casc.exact <= casc.thresh_m) =>
         /\ casc.bbox
         /\ RELAX_DEN * casc.planar <= casc.thresh_m * RELAX_NUM
    /\ casc.near <=> (casc.exact <= casc.thresh_m)

\* ---------------------------------------------------- agent store, index
\* Python dict as a function whose domain is the set of keys
DictSet(d, k, v) == [x \in (DOMAIN d) \cup {k} |-> IF x = k THEN v ELSE d[x]]

\* defaultdict(set).__getitem__: a missing key is inserted with an empty set
DefaultDictGetItem(d, k) ==
  [val  |-> IF k \in DOMAIN d THEN d[k] ELSE {},
   dict |-> IF k \in DOMAIN d THEN d ELSE DictSet(d, k, {})]

DictGet_inserting(d, k) ==
  [val  |-> IF k \in DOMAIN d THEN d[k] ELSE {},
   dict |-> IF k \in DOMAIN d THEN d ELSE DictSet(d, k, {})]

\* dict.get(k, set()): a missing key is left missing
DictGet(d, k) ==
  [val  |-> IF k \in DOMAIN d THEN d[k] ELSE {},
   dict |-> d]

discard_kept(S, x) == S

\* set.discard
discard(S, x) == S \ {x}

\* User.__init__
User(user_id) ==
  [user_id |-> user_id, location_histry |-> <<>>, last_ts |-> 0, last_gh |-> None]

\* deque(maxlen=20).append
deque_append(q, x) ==
  IF Len(q) >= HIST_MAXLEN THEN Append(Tail(q), x) ELSE Append(q, x)

\* User.add_location
add_location(u, lat, lon, ts, clock) ==
  [u EXCEPT !.location_histry = deque_append(@, <<lat, lon>>),
            !.last_ts = IF ts = None THEN clock ELSE Val(ts)]

\* User.latest_location
latest_location(u) ==
  IF u.location_histry # <<>>
  THEN Some(u.location_histry[Len(u.location_histry)])
  ELSE None

NoLocation_unknown_passes(st, u) ==
  u # None /\ latest_location(st.heap[Val(u)]) = None

\* line 208: not u or not u.latest_location()
NoLocation(st, u) ==
  u = None \/ latest_location(st.heap[Val(u)]) = None

IsStale_swapped(t_now, last_ts, time_window) == (last_ts - t_now) > time_window

\* line 225
IsStale(t_now, last_ts, time_window) == (t_now - last_ts) > time_window

IsSelf_never(vid, user_id) == FALSE

\* line 220
IsSelf(vid, user_id) == vid = user_id

\* lines 215-216: candidates |= geo_index.get(h, set()) for h in cand_hashes
RECURSIVE GatherCandidates(_, _, _)
GatherCandidates(index, cand_hashes, candidates) ==
  IF cand_hashes = {} THEN [candidates |-> candidates, index |-> index]
  ELSE LET h == CHOOSE x \in cand_hashes : TRUE
           g == DictGet(index, h)
       IN  GatherCandidates(g.dict, cand_hashes \ {h}, candidates \cup g.val)

\* lines 219-230: one pass of the loop per candidate, in iteration order
RECURSIVE CollectHits(_, _, _, _)
CollectHits(st, f, todo, hits) ==
  IF todo = <<>> THEN hits
  ELSE
    LET vid  == Head(todo)
        rest == Tail(todo)
        v    == IF vid \in DOMAIN st.users THEN Some(st.users[vid]) ELSE None
    IN  IF IsSelf(vid, f.user_id) THEN CollectHits(st, f, rest, hits)
        ELSE IF NoLocation(st, v) THEN CollectHits(st, f, rest, hits)
        ELSE IF IsStale(f.t_now, st.heap[Val(v)].last_ts, f.time_window)
             THEN CollectHits(st, f, rest, hits)
        ELSE
          LET loc2 == Val(latest_location(st.heap[Val(v)]))
          IN  IF near_with_stages(f.lat1, f.lon1, loc2[1], loc2[2], f.threshold)
              THEN CollectHits(st, f, rest,
                     Append(hits, <<vid, haversine(f.lat1, f.lon1, loc2[1], loc2[2])>>))
              ELSE CollectHits(st, f, rest, hits)

\* the order in which "for vid in candidates" visits a set: some fixed one
RECURSIVE IterationOrder(_)
IterationOrder(S) ==
  IF S = {} THEN <<>>
  ELSE LET x == CHOOSE y \in S : TRUE IN <<x>> \o IterationOrder(S \ {x})

\* the positions reported; the last one is out of range
Positions ==
  { << Deg(0), Deg(0) >>, << Deg(0), Deg(180) >>, << Deg(180), Deg(0) >> }

\* encode_geohash and neighbors are pure functions of their arguments, so
\* their values at the reported positions are computed once, by the
\* operators above, and looked up by the statements that call them
GeohashOf ==
  [p \in Positions |-> encode_geohash(p[1], p[2], GEO_PREC)]

NeighborsOf ==
  [g \in { GeohashOf[p] : p \in Positions } |-> neighbors(g)]

(***************************************************************************)
(* upsert_user and check_proximity_geohash, one statement per step.  st is *)
(* the shared state [users, heap, geo_index]; f is the activation record;  *)
(* clock is what time.time() returns.  The pc is the source line about to  *)
(* run.  A request handler (location) runs the upsert and then the query.  *)
(***************************************************************************)
Step(st, f, clock) ==
  CASE f.pc = "u188" ->
         [st |-> st,
          f  |-> [f EXCEPT !.pc = IF f.user_id \notin DOMAIN st.users
                                  THEN "u189" ELSE "u190"]]
    [] f.pc = "u189" ->
         [st |-> [st EXCEPT !.heap  = Append(@, User(f.user_id)),
                            !.users = DictSet(@, f.user_id, Len(st.heap) + 1)],
          f  |-> [f EXCEPT !.pc = "u190"]]
    [] f.pc = "u190" ->
         [st |-> st,
          f  |-> [f EXCEPT !.u = Some(st.users[f.user_id]), !.pc = "u192"]]
    [] f.pc = "u192" ->
         [st |-> st,
          f  |-> [f EXCEPT !.pc = IF st.heap[Val(f.u)].last_gh # None
                                  THEN "u193" ELSE "u195"]]
    [] f.pc = "u193" ->
         LET key == Val(st.heap[Val(f.u)].last_gh)
             g   == DefaultDictGetItem(st.geo_index, key)
         IN  [st |-> [st EXCEPT !.geo_index =
                        DictSet(g.dict, key, discard(g.val, f.user_id))],
              f  |-> [f EXCEPT !.pc = "u195"]]
    [] f.pc = "u195" ->
         [st |-> [st EXCEPT !.heap[Val(f.u)] =
                    add_location(@, f.lat, f.lon, f.ts, clock)],
          f  |-> [f EXCEPT !.pc = "u197"]]
    [] f.pc = "u197" ->
         LET code == GeohashOf[<<f.lat, f.lon>>]
         IN  [st |-> [st EXCEPT !.heap[Val(f.u)].last_gh = Some(code)],
              f  |-> [f EXCEPT !.gh = code, !.pc = "u199"]]
    [] f.pc = "u199" ->
         LET g == DefaultDictGetItem(st.geo_index, f.gh)
         IN  [st |-> [st EXCEPT !.geo_index =
                        DictSet(g.dict, f.gh, g.val \cup {f.user_id})],
              f  |-> [f EXCEPT !.pc = IF f.caller = "location"
                                      THEN "q206" ELSE "return"]]
    [] f.pc = "q206" ->
         [st |-> st, f |-> [f EXCEPT !.t_now = clock, !.pc = "q207"]]
    [] f.pc = "q207" ->
         [st |-> st,
          f  |-> [f EXCEPT !.u = IF f.user_id \in DOMAIN st.users
                                 THEN Some(st.users[f.user_id]) ELSE None,
                           !.pc = "q208"]]
    [] f.pc = "q208" ->
         [st |-> st,
          f  |-> IF NoLocation(st, f.u)
                 THEN [f EXCEPT !.hits = <<>>, !.pc = "return"]
                 ELSE [f EXCEPT !.pc = "q210"]]
    [] f.pc = "q210" ->
         IF f.u = None
         THEN [st |-> st, f |-> [f EXCEPT !.raised = TRUE, !.pc = "return"]]
         ELSE
           LET u   == st.heap[Val(f.u)]
               loc == latest_location(u)
           IN  IF loc = None
               THEN [st |-> st, f |-> [f EXCEPT !.raised = TRUE, !.pc = "return"]]
               ELSE [st |-> st,
                     f  |-> [f EXCEPT
                        !.lat1 = Val(loc)[1], !.lon1 = Val(loc)[2],
                        !.gh = IF u.last_gh # None /\ Val(u.last_gh) # <<>>
                               THEN Val(u.last_gh)
                               ELSE encode_geohash(Val(loc)[1], Val(loc)[2], GEO_PREC),
                        !.pc = "q213"]]
    [] f.pc = "q213" ->
         LET g == GatherCandidates(st.geo_index, {f.gh} \cup NeighborsOf[f.gh], {})
         IN  [st |-> [st EXCEPT !.geo_index = g.index],
              f  |-> [f EXCEPT !.candidates = g.candidates, !.pc = "q218"]]
    [] f.pc = "q218" ->
         [st |-> st,
          f  |-> [f EXCEPT !.hits = CollectHits(st, f, IterationOrder(f.candidates), <<>>),
                           !.pc = "return"]]

\* a call run from its first statement to its return, nothing interleaved
RECURSIVE Run(_, _, _)
Run(st, f, clock) ==
  IF f.pc = "return" THEN [st |-> st, f |-> f]
  ELSE LET r == Step(st, f, clock) IN Run(r.st, r.f, clock)

Store == [users |-> users, heap |-> heap, geo_index |-> geo_index]

UserIds == { "alice", "bob", "carol" }
Agents == { "alice", "bob" }                \* the identifiers that report

ValidPosition(lat, lon) ==
  /\ Deg(-90) <= lat /\ lat <= Deg(90)
  /\ Deg(-180) <= lon /\ lon <= Deg(180)

TimeWindows == { 0, TIME_WINDOW }

Frame(pc, caller, user_id, lat, lon, ts, threshold, time_window) ==
  [pc |-> pc, caller |-> caller, user_id |-> user_id, lat |-> lat, lon |-> lon,
   ts |-> ts, threshold |-> threshold, time_window |-> time_window,
   u |-> None, gh |-> <<>>, t_now |-> 0, lat1 |-> 0, lon1 |-> 0,
   candidates |-> {}, hits |-> <<>>, raised |-> FALSE]

\* what a finished call leaves behind for its caller
Returned(fn, f) ==
  [fn |-> fn, user_id |-> f.user_id, lat |-> f.lat, lon |-> f.lon,
   threshold |-> f.threshold, time_window |-> f.time_window, t_now |-> f.t_now,
   raised |-> f.raised, hits |-> f.hits]

NoCall == Returned("none", Frame("return", "direct", "", 0, 0, None, 0, 0))

RECURSIVE SumLen(_, _)
SumLen(h, i) == IF i > Len(h) THEN 0 ELSE Len(h[i].location_histry) + SumLen(h, i + 1)

\* upserts applied so far (no history is full within MaxUpserts)
Upserts == SumLen(heap, 1)

Upsert(user_id, lat, lon, ts) ==
  /\ Upserts < MaxUpserts
  /\ \E r \in { Run(Store, Frame("u188", "direct", user_id, lat, lon, ts, 0, 0),
                      now) } :
         /\ users' = r.st.users
         /\ heap' = r.st.heap
         /\ geo_index' = r.st.geo_index
         /\ ret' = Returned("upsert_user", r.f)
  /\ upserted' = upserted \cup {user_id}
  /\ UNCHANGED <<now, frames>>

Query(user_id, threshold, time_window) ==
  /\ \E r \in { Run(Store, Frame("q206", "direct", user_id, 0, 0, None,
                                threshold, time_window), now) } :
         /\ users' = r.st.users
         /\ heap' = r.st.heap
         /\ geo_index' = r.st.geo_index
         /\ ret' = Returned("check_proximity_geohash", r.f)
  /\ UNCHANGED <<now, frames, upserted>>

Tick ==
  /\ now < MaxTime
  /\ now' = now + 1
  /\ UNCHANGED <<users, heap, geo_index, frames, ret, upserted>>

CodecIdle == gh = <<>> /\ prev_gh = <<>> /\ dir = NoDir /\ cell = None

Init ==
  /\ users = << >> /\ heap = << >> /\ geo_index = << >>
  /\ now = 0 /\ frames = << >> /\ ret = NoCall /\ upserted = {}
  /\ CodecIdle /\ CascIdle

Next ==
  \/ \E user_id \in Agents, p \in Positions :
       Upsert(user_id, p[1], p[2], Some(now)) /\ UNCHANGED <<codecVars, casc>>
  \/ \E user_id \in UserIds, tw \in TimeWindows :
       Query(user_id, THRESH_M, tw) /\ UNCHANGED <<codecVars, casc>>
  \/ Tick /\ UNCHANGED <<codecVars, casc>>

Spec == Init /\ [][Next]_vars

\* the buckets whose set holds an identifier
BucketsOf(user_id) == { g \in DOMAIN geo_index : user_id \in geo_index[g] }

\* C1: after any sequence of upserts every stored agent is in the bucket of
\* its last_gh and in no other one; an identifier never upserted is in none.
BucketInvariant ==
  /\ DOMAIN users = upserted
  /\ \A user_id \in UserIds :
       IF user_id \in upserted
       THEN BucketsOf(user_id) = { Val(heap[users[user_id]].last_gh) }
       ELSE BucketsOf(user_id) = {}

\* C1 witness: an agent has moved to another bucket and back again.
WitnessMovedBack ==
  \E user_id \in DOMAIN users :
    LET h == heap[users[user_id]].location_histry
    IN  /\ Len(h) = 3 /\ h[1] = h[3]
        /\ encode_geohash(h[1][1], h[1][2], GEO_PREC)
             # encode_geohash(h[2][1], h[2][2], GEO_PREC)

LastTs(user_id) == heap[users[user_id]].last_ts
Latest(user_id) == latest_location(heap[users[user_id]])
Queried == ret.fn = "check_proximity_geohash"

\* C4: no agent whose last update is older than the time window at query
\* time is among the hits of a query.
RecencyFilter ==
  Queried =>
    \A i \in 1..Len(ret.hits) :
      ~(ret.t_now - LastTs(ret.hits[i][1]) > ret.time_window)

\* C4 witness: a query left out an agent that stands on the querying
\* agent's own position but reported too long ago.
WitnessStaleSkipped ==
  /\ Queried /\ ret.user_id \in DOMAIN users
  /\ \E v \in DOMAIN users :
       /\ v # ret.user_id
       /\ Latest(v) = Latest(ret.user_id)
       /\ ret.t_now - LastTs(v) > ret.time_window
       /\ \A i \in 1..Len(ret.hits) : ret.hits[i][1] # v

\* C5: the hits of a query never name the querying agent, and name every
\* other agent at most once.
SelfExclusion ==
  Queried =>
    /\ \A i \in 1..Len(ret.hits) : ret.hits[i][1] # ret.user_id
    /\ \A i, j \in 1..Len(ret.hits) : i # j => ret.hits[i][1] # ret.hits[j][1]

\* C5 witness: a query found another agent while the querying agent sat in
\* the candidate buckets itself.
WitnessHitNotSelf ==
  /\ Queried /\ ret.hits # <<>>
  /\ ret.user_id \in DOMAIN users
  /\ ret.user_id \in geo_index[Val(heap[users[ret.user_id]].last_gh)]

\* C6: a query for an identifier that was never upserted, or that has no
\* recorded location, returns the empty list and raises nothing.
UnknownAgentEmpty ==
  (Queried /\ (ret.user_id \notin DOMAIN users
               \/ heap[users[ret.user_id]].location_histry = <<>>))
    => (~ret.raised /\ ret.hits = <<>>)

\* C6 witness: an unknown identifier was queried while every reporting agent
\* occupied a bucket.
WitnessUnknownQueried ==
  /\ Queried /\ ret.user_id \notin DOMAIN users /\ ~ret.raised
  /\ \A a \in Agents : a \in DOMAIN users /\ BucketsOf(a) # {}

\* C8: an upsert with a latitude outside [-90, 90] or a longitude outside
\* [-180, 180] fails and changes neither the agent store nor the index.
InvalidUpsertRejected ==
  [][ \A user_id \in Agents, p \in Positions :
        (Upsert(user_id, p[1], p[2], Some(now)) /\ ~ValidPosition(p[1], p[2]))
          => (ret'.raised /\ UNCHANGED <<users, heap, geo_index>>) ]_vars

\* C10: a proximity query changes neither the agent store nor the index:
\* no record, no bucket key, no bucket membership.  (Every Query step ends
\* with the query as the last returned call.)
QueryReadsOnly ==
  [][ (ret'.fn = "check_proximity_geohash")
        => UNCHANGED <<users, heap, geo_index>> ]_vars

\* C10 witness: a known agent was queried while some of its neighbour
\* codes had no entry in the index.
WitnessMissingNeighbourKey ==
  /\ Queried /\ ret.user_id \in DOMAIN users
  /\ \E h \in neighbors(Val(heap[users[ret.user_id]].last_gh)) :
       h \notin DOMAIN geo_index

\* ----------------------------------------------------- concurrent requests
(***************************************************************************)
(* The development server handles every /api/location request on a thread  *)
(* of its own and the code takes no lock, so the statements of location()  *)
(* of different requests interleave.  A thread runs one statement of its   *)
(* request per step.                                                       *)
(***************************************************************************)
Threads == { 1, 2 }

IdleFrame == Frame("idle", "location", "", 0, 0, None, 0, 0)

\* requests received so far
RECURSIVE Received(_)
Received(T) ==
  IF T = {} THEN 0
  ELSE LET t == CHOOSE x \in T : TRUE
       IN  frames[t].served + Received(T \ {t})

ConcPositions == { << Deg(0), Deg(0) >>, << Deg(0), Deg(180) >> }

\* location(), lines 277-284: the request is parsed and upsert_user called
Receive(t, user_id, lat, lon) ==
  /\ frames[t].f.pc = "idle"
  /\ Received(Threads) < MaxRequests
  /\ frames' = [frames EXCEPT
       ![t] = [f |-> Frame("u188", "location", user_id, lat, lon, Some(now),
                           THRESH_M, TIME_WINDOW),
               served |-> @.served + 1]]
  /\ UNCHANGED <<users, heap, geo_index, now, ret, upserted>>

\* one statement of upsert_user or check_proximity_geohash
ThreadStep(t) ==
  /\ frames[t].f.pc \notin { "idle", "return" }
  /\ \E r \in { Step(Store, frames[t].f, now) } :
       /\ users' = r.st.users
       /\ heap' = r.st.heap
       /\ geo_index' = r.st.geo_index
       /\ frames' = [frames EXCEPT ![t].f = r.f]
  /\ upserted' = IF frames[t].f.pc = "u199"
                 THEN upserted \cup {frames[t].f.user_id} ELSE upserted
  /\ UNCHANGED <<now, ret>>

\* location(), lines 288-297: the response is sent
Respond(t) ==
  /\ frames[t].f.pc = "return"
  /\ ret' = Returned("location", frames[t].f)
  /\ frames' = [frames EXCEPT ![t].f = IdleFrame]
  /\ UNCHANGED <<users, heap, geo_index, now, upserted>>

InitConc ==
  /\ users = << >> /\ heap = << >> /\ geo_index = << >>
  /\ now = 0 /\ ret = NoCall /\ upserted = {}
  /\ frames = [t \in Threads |-> [f |-> IdleFrame, served |-> 0]]
  /\ CodecIdle /\ CascIdle

NextConc ==
  \/ \E t \in Threads, user_id \in Agents, p \in ConcPositions :
       Receive(t, user_id, p[1], p[2]) /\ UNCHANGED <<codecVars, casc>>
  \/ \E t \in Threads : ThreadStep(t) /\ UNCHANGED <<codecVars, casc>>
  \/ \E t \in Threads : Respond(t) /\ UNCHANGED <<codecVars, casc>>

SpecConc == InitConc /\ [][NextConc]_vars

\* no thread is inside upsert_user
NoUpsertRunning ==
  \A t \in Threads :
    frames[t].f.pc \notin { "u188", "u189", "u190", "u192", "u193", "u195", "u197", "u199" }

\* C2: the upsert is atomic for concurrent requests: an agent for which an
\* upsert has returned is in exactly one bucket in every state, and in the
\* bucket of its last_gh once no upsert is running.
UpsertAtomic ==
  \A a \in upserted :
    /\ Cardinality(BucketsOf(a)) = 1
    /\ NoUpsertRunning => BucketsOf(a) = { Val(heap[users[a]].last_gh) }

====
